---- MODULE Spec2Model ----
(***************************************************************************)
(* Model of protobuf-codegen/src/rust_types_values.rs: the RustType        *)
(* algebra (default_value, clear), the conversion engine                   *)
(* (into_target / try_into_target), the path resolver (make_path_to_path), *)
(* cross-file naming (message_or_enum_to_rust_relative) and the mapping of *)
(* field types to Rust types (rust_name).                                  *)
(*                                                                         *)
(* Every operation of the file is a pure function.  A behaviour of the     *)
(* model is one call: Init draws the operation and its arguments from      *)
(* bounded sets, the actions run the call, and the call ends in a state    *)
(* with pc = "done" that holds the outcome.                                *)
(***************************************************************************)
EXTENDS Naturals, Sequences, FiniteSets, TLC

VARIABLES
    op,        \* the function that was called
    self,      \* RustType arguments: the receiver (source type) ...
    target,    \* ... and the target type of a conversion
    v,         \* the expression text argument
    cur,       \* try_into_target: receiver of the innermost active frame
    depth,     \* try_into_target: number of recursive calls made so far
    source,    \* make_path_to_path: source path
    dest,      \* make_path_to_path: dest path
    entity,    \* message_or_enum_to_rust_relative: message_or_enum
    current,   \* message_or_enum_to_rust_relative: current (FileAndMod)
    file,      \* file_last_component / is_descriptor_proto: file name
    package,   \* is_descriptor_proto: package of the file
    field_type, \* rust_name: the protobuf field type
    pc,        \* "run" | "done"
    conv,      \* into_target: the Result try_into_target returned
    result     \* outcome of the call once pc = "done"

vars == <<op, self, target, v, cur, depth, source, dest, entity, current,
          file, package, field_type, pc, conv, result>>

(***************************************************************************)
(* Bounds of the model.                                                    *)
(***************************************************************************)
\* number of Ref / Uniq layers wrapped around a base type
MaxWrap == 2
\* longest source path and longest dest path (in segments) given to
\* make_path_to_path
MaxSource == 3
MaxDest == 2
\* longest directory prefix (in characters) put before a file name
MaxPrefix == 3

(***************************************************************************)
(* enum RustType (lines 17-53).  A type is a tuple whose head is the       *)
(* variant name; equality of tuples is the derived structural PartialEq.   *)
(***************************************************************************)
Int(signed, bits) == <<"Int", signed, bits>>
Float(bits) == <<"Float", bits>>
Bool == <<"Bool">>
Vec(t) == <<"Vec", t>>
HashMap(k, t) == <<"HashMap", k, t>>
String == <<"String">>
Slice(t) == <<"Slice", t>>
Str == <<"Str">>
Option(t) == <<"Option", t>>
SingularField(t) == <<"SingularField", t>>
SingularPtrField(t) == <<"SingularPtrField", t>>
RepeatedField(t) == <<"RepeatedField", t>>
Uniq(t) == <<"Uniq", t>>
Ref(t) == <<"Ref", t>>
Message(name) == <<"Message", name>>
Enum(name, default) == <<"Enum", name, default>>
EnumOrUnknown(name, default) == <<"EnumOrUnknown", name, default>>
Oneof(name) == <<"Oneof", name>>
Bytes == <<"Bytes">>
Chars == <<"Chars">>
Group == <<"Group">>

Variant(t) == t[1]

\* Outcomes of a call: a returned value, Err(()) of a Result, or a panic.
Ok(x) == <<"Ok", x>>
Err == <<"Err">>
Panic == <<"Panic">>
IsOk(r) == r[1] = "Ok"

u8 == Int(FALSE, 8)

is_u8(t) == t = Int(FALSE, 8)

is_str(t) == Variant(t) = "Str"

\* is_string taking str for a string as well
is_string_OrStr(t) == Variant(t) \in {"String", "Str"}

is_string(t) == Variant(t) = "String"

is_slice(t) == Variant(t) = "Slice"

is_slice_u8(t) == is_slice(t) /\ is_u8(t[2])

is_message(t) == Variant(t) = "Message"

is_enum(t) == Variant(t) = "Enum"

is_enum_or_unknown(t) == Variant(t) = "EnumOrUnknown"

is_ref(t) == Variant(t) = "Ref"

is_box(t) == Variant(t) = "Uniq"

(***************************************************************************)
(* The types the model draws its arguments from.                           *)
(***************************************************************************)
Symbols == {"Ab", "Cd"}
Defaults == {"X", "Y"}

Leaves ==
    {Int(TRUE, 32), Int(FALSE, 8), Float(64), Bool, String, Str, Bytes,
     Chars, Group, Message("Ab"), Oneof("Ab")}
    \cup {Enum(s, d) : s \in Symbols, d \in Defaults}
    \cup {EnumOrUnknown(s, d) : s \in Symbols, d \in Defaults}

Elems == {Int(FALSE, 8), Message("Ab")}

Containers ==
    {Vec(e) : e \in Elems} \cup {Slice(e) : e \in Elems}
    \cup {Option(Int(TRUE, 32)), SingularField(String),
          SingularPtrField(Message("Ab")), RepeatedField(Int(FALSE, 8)),
          HashMap(String, Int(TRUE, 32))}

BaseTypes == Leaves \cup Containers

RECURSIVE Wrapped(_)
Wrapped(n) ==
    IF n = 0 THEN BaseTypes
    ELSE LET W == Wrapped(n - 1)
         IN  W \cup {Ref(t) : t \in W} \cup {Uniq(t) : t \in W}

Types == Wrapped(MaxWrap)

\* expression texts: a variable and a nested call
Exprs == {"v", "::protobuf::ProtobufEnumOrUnknown::new(v)"}


\* the last arm of default_value returning a generic default
default_value_other_Default(t) == Ok("::std::default::Default::default()")

\* line 217: the arm `_ => panic!(..)` of default_value
default_value_other(t) == Panic

(***************************************************************************)
(* RustType::default_value (lines 191-219): the arms in match order.       *)
(***************************************************************************)
default_value(t) ==
    IF is_ref(t) /\ is_str(t[2]) THEN Ok("\"\"")
    ELSE IF is_ref(t) /\ is_slice(t[2]) THEN Ok("&[]")
    ELSE IF Variant(t) = "Int" THEN Ok("0")
    ELSE IF Variant(t) = "Float" THEN Ok("0.")
    ELSE IF Variant(t) = "Bool" THEN Ok("false")
    ELSE IF Variant(t) = "Vec" THEN Ok("::std::vec::Vec::new()")
    ELSE IF Variant(t) = "HashMap" THEN Ok("::std::collections::HashMap::new()")
    ELSE IF Variant(t) = "String" THEN Ok("::std::string::String::new()")
    ELSE IF Variant(t) = "Bytes" THEN Ok("::bytes::Bytes::new()")
    ELSE IF Variant(t) = "Chars" THEN Ok("::protobuf::Chars::new()")
    ELSE IF Variant(t) = "Option" THEN Ok("::std::option::Option::None")
    ELSE IF Variant(t) = "SingularField" THEN Ok("::protobuf::SingularField::none()")
    ELSE IF Variant(t) = "SingularPtrField"
         THEN Ok("::protobuf::SingularPtrField::none()")
    ELSE IF Variant(t) = "RepeatedField" THEN Ok("::protobuf::RepeatedField::new()")
    ELSE IF Variant(t) = "Message" THEN Ok(t[2] \o "::new()")
    ELSE IF is_ref(t) /\ is_message(t[2])
         THEN Ok("<" \o t[2][2] \o " as ::protobuf::Message>::default_instance()")
    ELSE IF Variant(t) = "Enum" THEN Ok(t[2] \o "::" \o t[3])
    ELSE IF Variant(t) = "EnumOrUnknown"
         THEN Ok("::protobuf::ProtobufEnumOrUnknown::new(" \o t[2] \o "::"
                 \o t[3] \o ")")
    ELSE default_value_other(t)

\* the last arm of clear emitting an in-place clear
clear_other_InPlace(t, x) == Ok(x \o ".clear()")

\* line 247: the arm `ref ty => panic!(..)` of clear
clear_other(t, x) == Panic

(***************************************************************************)
(* RustType::clear (lines 229-249).  The scalar arm formats the value of   *)
(* self.default_value(); a panic inside it unwinds through clear.          *)
(***************************************************************************)
clear(t, x) ==
    IF Variant(t) = "Option" THEN Ok(x \o " = ::std::option::Option::None")
    ELSE IF Variant(t) \in {"Vec", "Bytes", "String", "RepeatedField",
                            "SingularField", "SingularPtrField", "HashMap"}
         THEN Ok(x \o ".clear()")
    ELSE IF Variant(t) = "Chars" THEN Ok("::protobuf::Clear::clear(&mut " \o x \o ")")
    ELSE IF Variant(t) \in {"Bool", "Float", "Int", "Enum", "EnumOrUnknown"}
         THEN LET d == default_value(t)
              IN  IF IsOk(d) THEN Ok(x \o " = " \o d[2]) ELSE Panic
    ELSE clear_other(t, x)

(***************************************************************************)
(* RustType::try_into_target (lines 259-349).                              *)
(***************************************************************************)
\* RefBoxToRef comparing the Box itself, not what it holds, with the target's
\* referent
RefBoxToRef_SameBox(s, t) ==
    /\ is_ref(s)
    /\ is_box(s[2])
    /\ is_ref(t)
    /\ s[2] = t[2]

\* lines 261-267: the check made before the match
RefBoxToRef(s, t) ==
    /\ is_ref(s)
    /\ is_box(s[2])
    /\ is_ref(t)
    /\ s[2][2] = t[2]

\* same_enum comparing the default variants as well as the symbols
same_enum_WithDefault(s, t) == s[2] = t[2] /\ s[3] = t[3]

\* lines 332 and 336: the guard `if f == t` on the symbols of two enum types
same_enum(s, t) == s[2] = t[2]

\* lines 270-340: the arms of the match, in order, each as <<guard, value>>;
\* the first entry is the check of lines 261-267, which returns before them.
Rules(s, t, x) ==
    << <<RefBoxToRef(s, t), "&**" \o x>>,
       <<s = t, x>>,
       <<is_ref(s) /\ s[2] = t, "*" \o x>>,
       <<is_box(t) /\ s = t[2], "::std::boxed::Box::new(" \o x \o ")">>,
       <<is_box(s) /\ s[2] = t, "*" \o x>>,
       <<s = String /\ is_ref(t) /\ t[2] = Str, "&" \o x>>,
       <<s = Chars /\ is_ref(t) /\ t[2] = Str, "&" \o x>>,
       <<is_ref(s) /\ is_ref(t) /\ is_string(s[2]) /\ is_str(t[2]), "&" \o x>>,
       <<is_ref(s) /\ t = String /\ s[2] = Str, x \o ".to_owned()">>,
       <<is_ref(s) /\ t = Chars /\ s[2] = Str,
         "<::protobuf::Chars as ::std::convert::From<_>>::from(" \o x
            \o ".to_owned())">>,
       <<is_ref(s) /\ Variant(t) = "Vec" /\ is_slice(s[2]) /\ s[2][2] = t[2],
         x \o ".to_vec()">>,
       <<is_ref(s) /\ t = Bytes /\ is_slice_u8(s[2]),
         "<::bytes::Bytes as ::std::convert::From<_>>::from(" \o x
            \o ".to_vec())">>,
       <<Variant(s) = "Vec" /\ is_ref(t) /\ is_slice(t[2]) /\ s[2] = t[2][2],
         "&" \o x>>,
       <<s = Bytes /\ is_ref(t) /\ is_slice(t[2]) /\ t[2][2] = u8, "&" \o x>>,
       <<is_ref(s) /\ is_ref(t) /\ Variant(s[2]) = "Vec" /\ is_slice(t[2])
            /\ s[2][2] = t[2][2],
         "&" \o x>>,
       <<is_enum(s) /\ t = Int(TRUE, 32),
         "::protobuf::ProtobufEnum::value(&" \o x \o ")">>,
       <<is_enum_or_unknown(s) /\ t = Int(TRUE, 32),
         "::protobuf::ProtobufEnumOrUnknown::value(&" \o x \o ")">>,
       <<is_ref(s) /\ t = Int(TRUE, 32) /\ is_enum(s[2]),
         "::protobuf::ProtobufEnum::value(" \o x \o ")">>,
       <<is_ref(s) /\ t = Int(TRUE, 32) /\ is_enum_or_unknown(s[2]),
         "::protobuf::ProtobufEnumOrUnknown::value(" \o x \o ")">>,
       <<is_enum_or_unknown(s) /\ is_enum(t) /\ same_enum(s, t),
         "::protobuf::ProtobufEnumOrUnknown::enum_value_or_default(&" \o x
            \o ")">>,
       <<is_enum(s) /\ is_enum_or_unknown(t) /\ same_enum(s, t),
         "::protobuf::ProtobufEnumOrUnknown::new(" \o x \o ")">> >>

\* the rules whose guard holds for (s, t)
Matching(s, t) ==
    LET R == Rules(s, t, "") IN {i \in 1..Len(R) : R[i][1]}

Min(S) == CHOOSE i \in S : \A j \in S : i <= j

\* Direct without the check of lines 261-267: the match alone
Direct_MatchOnly(s, t, x) ==
    LET R == Rules(s, t, x)
        M == {i \in 2..Len(R) : R[i][1]}
    IN  IF M = {} THEN Err ELSE Ok(R[Min(M)][2])

\* lines 260-340: the first rule that applies returns; Err stands for
\* falling out of the match through `_ => ()`.
Direct(s, t, x) ==
    LET R == Rules(s, t, x)
        M == {i \in 1..Len(R) : R[i][1]}
    IN  IF M = {} THEN Err ELSE Ok(R[Min(M)][2])

\* lines 343-348, seen from the calling frame: what it returns given the
\* Result r of the recursive call
Fallback(r) == IF IsOk(r) THEN Ok(r[2]) ELSE Err

\* r handed back through n calling frames
RECURSIVE Unwind(_, _)
Unwind(r, n) == IF n = 0 THEN r ELSE Unwind(Fallback(r), n - 1)

\* lines 252-255: Result::expect
into_target_expect(r) == IF IsOk(r) THEN Ok(r[2]) ELSE Panic


(***************************************************************************)
(* RustPath, RustIdentWithPath (rust_name.rs) as this file uses them.  A   *)
(* path is [absolute, path]: a flag and the sequence of its segments.      *)
(***************************************************************************)
RustPath(abs, segs) == [absolute |-> abs, path |-> segs]

is_absolute(p) == p.absolute

is_empty(p) == p.path = <<>>

\* Option<RustIdent>: <<>> is None, <<i>> is Some(i)
first(p) == IF p.path = <<>> THEN <<>> ELSE <<Head(p.path)>>

remove_first(p) == RustPath(p.absolute, Tail(p.path))

super_ident == "super"

\* one `super` for every segment
to_reverse(p) == RustPath(p.absolute, [i \in 1..Len(p.path) |-> super_ident])

append(p, q) ==
    IF q.absolute THEN q ELSE RustPath(p.absolute, p.path \o q.path)

append_ident(p, i) == RustPath(p.absolute, Append(p.path, i))

\* RustIdentWithPath: a path and the identifier it leads to
IdentWithPath(p, i) == [path |-> p, ident |-> i]

with_ident(p, i) == IdentWithPath(p, i)

append_with_ident(p, n) == IdentWithPath(append(p, n.path), n.ident)

\* RustRelativePath::into_path
into_path(segs) == RustPath(FALSE, segs)

(***************************************************************************)
(* make_path_to_path (lines 484-498).                                      *)
(***************************************************************************)
\* StripCommon with `if` for `while`: one common segment removed at most
StripCommon_Once(s, d) ==
    IF ~is_empty(s) /\ first(s) = first(d)
    THEN <<remove_first(s), remove_first(d)>>
    ELSE <<s, d>>

\* lines 493-496: the loop, as <<source, dest>> after it
RECURSIVE StripCommon(_, _)
StripCommon(s, d) ==
    IF ~is_empty(s) /\ first(s) = first(d)
    THEN StripCommon(remove_first(s), remove_first(d))
    ELSE <<s, d>>

make_path_to_path(s, d) ==
    IF is_absolute(d) THEN Ok(d)
    ELSE IF is_absolute(s) THEN Panic             \* line 489: assert!
    ELSE LET r == StripCommon(s, d)
         IN  Ok(append(to_reverse(r[1]), r[2]))

\* lines 500-502
make_path(s, d) ==
    LET p == make_path_to_path(s, d.path)
    IN  IF IsOk(p) THEN Ok(with_ident(p[2], d.ident)) ELSE Panic


(***************************************************************************)
(* rust_name (lines 438-462).  A field type is the name of a variant of    *)
(* field_descriptor_proto::Type (lines 416-433).                           *)
(***************************************************************************)
FieldTypes ==
    {"TYPE_DOUBLE", "TYPE_FLOAT", "TYPE_INT32", "TYPE_INT64", "TYPE_UINT32",
     "TYPE_UINT64", "TYPE_SINT32", "TYPE_SINT64", "TYPE_FIXED32",
     "TYPE_FIXED64", "TYPE_SFIXED32", "TYPE_SFIXED64", "TYPE_BOOL",
     "TYPE_STRING", "TYPE_BYTES", "TYPE_ENUM", "TYPE_MESSAGE", "TYPE_GROUP"}

\* the last arm of rust_name returning i32, the type of an enum value
rust_name_other_Int32(ft) == Ok(Int(TRUE, 32))

\* lines 456-460: the arm of TYPE_ENUM | TYPE_GROUP | TYPE_MESSAGE
rust_name_other(ft) == Panic

rust_name(ft) ==
    CASE ft = "TYPE_DOUBLE" -> Ok(Float(64))
      [] ft = "TYPE_FLOAT" -> Ok(Float(32))
      [] ft = "TYPE_INT32" -> Ok(Int(TRUE, 32))
      [] ft = "TYPE_INT64" -> Ok(Int(TRUE, 64))
      [] ft = "TYPE_UINT32" -> Ok(Int(FALSE, 32))
      [] ft = "TYPE_UINT64" -> Ok(Int(FALSE, 64))
      [] ft = "TYPE_SINT32" -> Ok(Int(TRUE, 32))
      [] ft = "TYPE_SINT64" -> Ok(Int(TRUE, 64))
      [] ft = "TYPE_FIXED32" -> Ok(Int(FALSE, 32))
      [] ft = "TYPE_FIXED64" -> Ok(Int(FALSE, 64))
      [] ft = "TYPE_SFIXED32" -> Ok(Int(TRUE, 32))
      [] ft = "TYPE_SFIXED64" -> Ok(Int(TRUE, 64))
      [] ft = "TYPE_BOOL" -> Ok(Bool)
      [] ft = "TYPE_STRING" -> Ok(String)
      [] ft = "TYPE_BYTES" -> Ok(Vec(Int(FALSE, 8)))
      [] ft \in {"TYPE_ENUM", "TYPE_GROUP", "TYPE_MESSAGE"} -> rust_name_other(ft)

(***************************************************************************)
(* file_last_component (lines 464-468) and is_descriptor_proto (lines      *)
(* 479-482).  A file name is the sequence of its characters.               *)
(***************************************************************************)
\* AfterLast with str::find for str::rfind: after the first c
AfterLast_First(f, c) ==
    LET at == {i \in 1..Len(f) : f[i] = c}
    IN  IF at = {} THEN 0 ELSE CHOOSE i \in at : \A j \in at : i <= j

\* str::rfind(c), plus one: the position after the last c, 0 when there is none
AfterLast(f, c) ==
    LET at == {i \in 1..Len(f) : f[i] = c}
    IN  IF at = {} THEN 0 ELSE CHOOSE i \in at : \A j \in at : j <= i

Max(a, b) == IF a >= b THEN a ELSE b

file_last_component(f) ==
    LET bs == AfterLast(f, "\\")
        fs == AfterLast(f, "/")
    IN  SubSeq(f, Max(fs, bs) + 1, Len(f))

descriptor_proto == <<"d", "e", "s", "c", "r", "i", "p", "t", "o", "r", ".", "p", "r", "o", "t", "o">>

ab_proto == <<"a", "b", ".", "p", "r", "o", "t", "o">>

is_descriptor_proto(pkg, f) ==
    pkg = "google.protobuf" /\ file_last_component(f) = descriptor_proto

(***************************************************************************)
(* is_well_known_type_full (well_known_types.rs): the name of the type     *)
(* when the absolute name is .google.protobuf.<a well-known type>.         *)
(***************************************************************************)
WellKnownNames == {"Any", "Timestamp"}

\* Option: <<>> is None, <<n>> is Some(n)
is_well_known_type_full(name) ==
    IF \E n \in WellKnownNames : name = ".google.protobuf." \o n
    THEN <<CHOOSE n \in WellKnownNames : name = ".google.protobuf." \o n>>
    ELSE <<>>

(***************************************************************************)
(* WithScope (scope.rs) as message_or_enum_to_rust_relative reads it.  A   *)
(* message or enum is [file, file_mod, package, proto, mods, ident]: the   *)
(* name and the Rust module of the file that declares it, the package of   *)
(* that file, its protobuf name inside the package, the Rust modules       *)
(* inside the file that lead to it, and its Rust identifier.               *)
(***************************************************************************)
name_absolute(e) == "." \o e.package \o "." \o e.proto

rust_name_to_file(e) == IdentWithPath(RustPath(FALSE, e.mods), e.ident)

rust_name_with_file(e) ==
    IdentWithPath(RustPath(FALSE, <<e.file_mod>> \o e.mods), e.ident)

(***************************************************************************)
(* message_or_enum_to_rust_relative (lines 504-528).                       *)
(***************************************************************************)
same_file(e, c) == e.file = c.file

\* message_or_enum_to_rust_relative with the well-known table asked first
message_or_enum_to_rust_relative_WellKnownFirst(e, c) ==
    IF is_well_known_type_full(name_absolute(e)) # <<>>
    THEN Ok(IdentWithPath(RustPath(TRUE, <<"protobuf", "well_known_types">>),
                          is_well_known_type_full(name_absolute(e))[1]))
    ELSE IF same_file(e, c)
    THEN make_path(into_path(c.relative_mod), rust_name_to_file(e))
    ELSE IF is_descriptor_proto(e.package, e.file)
    THEN Ok(IdentWithPath(
                RustPath(TRUE, <<"protobuf", "descriptor">>
                                   \o rust_name_to_file(e).path.path),
                rust_name_to_file(e).ident))
    ELSE Ok(append_with_ident(
                append_ident(into_path(to_reverse(into_path(c.relative_mod)).path),
                             super_ident),
                rust_name_with_file(e)))

message_or_enum_to_rust_relative(e, c) ==
    IF same_file(e, c)
    THEN make_path(into_path(c.relative_mod), rust_name_to_file(e))
    ELSE IF is_well_known_type_full(name_absolute(e)) # <<>>
    THEN Ok(IdentWithPath(RustPath(TRUE, <<"protobuf", "well_known_types">>),
                          is_well_known_type_full(name_absolute(e))[1]))
    ELSE IF is_descriptor_proto(e.package, e.file)
    THEN Ok(IdentWithPath(
                RustPath(TRUE, <<"protobuf", "descriptor">>
                                   \o rust_name_to_file(e).path.path),
                rust_name_to_file(e).ident))
    ELSE Ok(append_with_ident(
                append_ident(into_path(to_reverse(into_path(c.relative_mod)).path),
                             super_ident),
                rust_name_with_file(e)))


(***************************************************************************)
(* The arguments the model draws besides the types.                        *)
(***************************************************************************)
SeqsUpTo(S, n) == UNION {[1..k -> S] : k \in 0..n}

Idents == {"a", "b", "c", "x"}

PathsUpTo(n) == {RustPath(abs, p) : abs \in BOOLEAN, p \in SeqsUpTo(Idents, n)}

PrefixChars == {"/", "\\", "x"}

BaseNames == {descriptor_proto, ab_proto, <<"d">>, <<>>}

Files == {p \o b : p \in SeqsUpTo(PrefixChars, MaxPrefix), b \in BaseNames}

Packages == {"google.protobuf", "pkg"}

\* the files of a code generator run, each with its Rust module
SchemaFiles ==
    {[file |-> <<"a", ".", "p", "r", "o", "t", "o">>, file_mod |-> "a"],
     [file |-> <<"x", "/", "a", ".", "p", "r", "o", "t", "o">>, file_mod |-> "a"],
     [file |-> <<"d", "e", "s", "c", "r", "i", "p", "t", "o", "r", ".", "p", "r", "o", "t", "o">>, file_mod |-> "descriptor"],
     [file |-> <<"x", "/", "d", "e", "s", "c", "r", "i", "p", "t", "o", "r", ".", "p", "r", "o", "t", "o">>, file_mod |-> "descriptor"]}

\* the messages declared in a file: protobuf name, Rust modules, identifier
Declared ==
    {[proto |-> "Any", mods |-> <<>>, ident |-> "Any"],
     [proto |-> "FileDescriptorProto", mods |-> <<>>,
      ident |-> "FileDescriptorProto"],
     [proto |-> "Msg", mods |-> <<>>, ident |-> "Msg"],
     [proto |-> "Outer.Any", mods |-> <<"outer">>, ident |-> "Any"],
     [proto |-> "Outer.Msg", mods |-> <<"outer">>, ident |-> "Msg"]}

Entities ==
    {[file |-> f.file, file_mod |-> f.file_mod, package |-> p,
      proto |-> d.proto, mods |-> d.mods, ident |-> d.ident] :
        f \in SchemaFiles, p \in Packages, d \in Declared}

\* FileAndMod (file_and_mod.rs): the file being generated and the module
\* inside it that the reference is written in
Currents ==
    {[file |-> f.file, relative_mod |-> m] :
        f \in SchemaFiles,
        m \in {<<>>, <<"outer">>, <<"other">>, <<"outer", "inner">>}}

(***************************************************************************)
(* The calls.                                                              *)
(***************************************************************************)
\* value of a variable the called function does not have
NoArg == <<>>

NoTypes == self = NoArg /\ target = NoArg /\ cur = NoArg /\ depth = 0

NoPaths == source = NoArg /\ dest = NoArg

NoNames == entity = NoArg /\ current = NoArg

NoFile == file = NoArg /\ package = NoArg

NoKind == field_type = NoArg

Start == pc = "run" /\ conv = NoArg /\ result = NoArg

InitInto ==
    /\ op = "into_target"
    /\ self \in Types
    /\ target \in Types
    /\ v \in Exprs
    /\ cur = self
    /\ depth = 0
    /\ NoPaths /\ NoNames /\ NoFile /\ NoKind /\ Start

InitAlgebra ==
    /\ op \in {"default_value", "clear"}
    /\ self \in Types
    /\ target = NoArg
    /\ v \in (IF op = "clear" THEN Exprs ELSE {NoArg})
    /\ cur = NoArg
    /\ depth = 0
    /\ NoPaths /\ NoNames /\ NoFile /\ NoKind /\ Start

InitPath ==
    /\ op = "make_path_to_path"
    /\ source \in PathsUpTo(MaxSource)
    /\ dest \in PathsUpTo(MaxDest)
    /\ v = NoArg
    /\ NoTypes /\ NoNames /\ NoFile /\ NoKind /\ Start

InitNaming ==
    /\ op = "message_or_enum_to_rust_relative"
    /\ entity \in Entities
    /\ current \in Currents
    /\ v = NoArg
    /\ NoTypes /\ NoPaths /\ NoFile /\ NoKind /\ Start

InitFile ==
    /\ \/ op = "file_last_component" /\ package = NoArg
       \/ op = "is_descriptor_proto" /\ package \in Packages
    /\ file \in Files
    /\ v = NoArg
    /\ NoTypes /\ NoPaths /\ NoNames /\ NoKind /\ Start

\* rust_name; v is the variable a clear of the returned type is written for
InitKind ==
    /\ op = "rust_name"
    /\ field_type \in FieldTypes
    /\ v \in Exprs
    /\ NoTypes /\ NoPaths /\ NoNames /\ NoFile /\ Start

Init ==
    InitInto \/ InitAlgebra \/ InitPath \/ InitNaming \/ InitFile \/ InitKind

Args ==
    <<op, self, target, v, source, dest, entity, current, file, package,
      field_type>>

Finish(r) ==
    /\ pc' = "done"
    /\ result' = r
    /\ UNCHANGED Args

\* into_target (lines 252-255) over try_into_target (lines 259-349): the
\* active frame converts cur.  A rule applies: its value is returned
\* through the calling frames and unwrapped by expect.
TryDirect ==
    /\ op = "into_target" /\ pc = "run"
    /\ IsOk(Direct(cur, target, v))
    /\ conv' = Unwind(Direct(cur, target, v), depth)
    /\ Finish(into_target_expect(conv'))
    /\ UNCHANGED <<cur, depth>>

\* TryFallback calling self.try_into_target, not s.try_into_target
TryFallback_SameReceiver ==
    /\ op = "into_target" /\ pc = "run"
    /\ ~IsOk(Direct(cur, target, v))
    /\ is_ref(cur)
    /\ cur' = cur
    /\ depth' = depth + 1
    /\ UNCHANGED <<pc, conv, result>>
    /\ UNCHANGED Args

\* lines 342-346: no rule applies and the receiver is Ref(s): call
\* s.try_into_target(target, v)
TryFallback ==
    /\ op = "into_target" /\ pc = "run"
    /\ ~IsOk(Direct(cur, target, v))
    /\ is_ref(cur)
    /\ cur' = cur[2]
    /\ depth' = depth + 1
    /\ UNCHANGED <<pc, conv, result>>
    /\ UNCHANGED Args

\* TryErr with the expression handed back unchanged where Err(()) is due
TryErr_Identity ==
    /\ op = "into_target" /\ pc = "run"
    /\ ~IsOk(Direct(cur, target, v))
    /\ ~is_ref(cur)
    /\ conv' = Unwind(Ok(v), depth)
    /\ Finish(into_target_expect(conv'))
    /\ UNCHANGED <<cur, depth>>

\* line 348: no rule applies and the receiver is no Ref: Err(()), which the
\* calling frames hand on and expect turns into a panic
TryErr ==
    /\ op = "into_target" /\ pc = "run"
    /\ ~IsOk(Direct(cur, target, v))
    /\ ~is_ref(cur)
    /\ conv' = Unwind(Err, depth)
    /\ Finish(into_target_expect(conv'))
    /\ UNCHANGED <<cur, depth>>

DefaultValue ==
    /\ op = "default_value" /\ pc = "run"
    /\ Finish(default_value(self))
    /\ UNCHANGED <<cur, depth, conv>>

Clear ==
    /\ op = "clear" /\ pc = "run"
    /\ Finish(clear(self, v))
    /\ UNCHANGED <<cur, depth, conv>>

MakePathToPath ==
    /\ op = "make_path_to_path" /\ pc = "run"
    /\ Finish(make_path_to_path(source, dest))
    /\ UNCHANGED <<cur, depth, conv>>

MessageOrEnumToRustRelative ==
    /\ op = "message_or_enum_to_rust_relative" /\ pc = "run"
    /\ Finish(message_or_enum_to_rust_relative(entity, current))
    /\ UNCHANGED <<cur, depth, conv>>

FileLastComponent ==
    /\ op = "file_last_component" /\ pc = "run"
    /\ Finish(Ok(file_last_component(file)))
    /\ UNCHANGED <<cur, depth, conv>>

IsDescriptorProto ==
    /\ op = "is_descriptor_proto" /\ pc = "run"
    /\ Finish(Ok(is_descriptor_proto(package, file)))
    /\ UNCHANGED <<cur, depth, conv>>

RustName ==
    /\ op = "rust_name" /\ pc = "run"
    /\ Finish(rust_name(field_type))
    /\ UNCHANGED <<cur, depth, conv>>

Next ==
    \/ TryDirect
    \/ TryFallback
    \/ TryErr
    \/ DefaultValue
    \/ Clear
    \/ MakePathToPath
    \/ MessageOrEnumToRustRelative
    \/ FileLastComponent
    \/ IsDescriptorProto
    \/ RustName

Spec == Init /\ [][Next]_vars


(***************************************************************************)
(* Properties of the conversion engine.                                    *)
(***************************************************************************)
Converted == op = "into_target" /\ pc = "done"

\* number of leading Ref layers of t
RECURSIVE RefLayers(_)
RefLayers(t) == IF is_ref(t) THEN 1 + RefLayers(t[2]) ELSE 0

\* t with its k outermost Ref layers removed
RECURSIVE Strip(_, _)
Strip(t, k) == IF k = 0 THEN t ELSE Strip(t[2], k - 1)

\* C1: conversion identity.  Converting a value to its own type returns the
\* expression unchanged (try_into_target gives Ok(v), into_target gives v),
\* without recursion, for every type including Ref(Uniq(x)); and the
\* Ref-of-Box check made before the match does not hold of (T, T).
C1_ConversionIdentity ==
    (op = "into_target" /\ self = target) =>
        /\ ~RefBoxToRef(self, target)
        /\ pc = "done" => (conv = Ok(v) /\ result = Ok(v) /\ depth = 0)

C1_Witness ==
    /\ Converted
    /\ self = Ref(Uniq(Message("Ab")))
    /\ target = self
    /\ result = Ok(v)

\* C2: a value of type Ref(Uniq(x)) converted into Ref(x) is "&**v", for
\* every x: decided by the check before the match, not by a match arm and not
\* by the Ref fallback.
C2_RefBoxToRef ==
    (Converted /\ is_ref(self) /\ is_box(self[2]) /\ target = Ref(self[2][2])) =>
        /\ conv = Ok("&**" \o v)
        /\ result = Ok("&**" \o v)
        /\ depth = 0

C2_Witness ==
    /\ Converted
    /\ self = Ref(Uniq(Message("Ab")))
    /\ target = Ref(Message("Ab"))
    /\ v = "v"
    /\ result = Ok("&**v")

\* no rule applies to s or to s with any number of leading Ref layers removed
NoRuleAlongRefs(s, t) ==
    \A k \in 0..RefLayers(s) : Matching(Strip(s, k), t) = {}

\* C3: no conversion path is always surfaced.  When no rule applies to the
\* source or to the source with leading Ref layers removed, try_into_target
\* returns Err and into_target panics; and a conversion between different
\* types never returns the expression unchanged.
C3_NoConversionPath ==
    Converted =>
        /\ NoRuleAlongRefs(self, target) => (conv = Err /\ result = Panic)
        /\ self # target => (conv # Ok(v) /\ result # Ok(v))

C3_Witness ==
    /\ Converted
    /\ self = Ref(Ref(Bool))
    /\ target = String
    /\ conv = Err
    /\ result = Panic

\* what holds of a call of into_target while it runs and after
FallbackInv ==
    op = "into_target" =>
        /\ depth <= RefLayers(self)
        /\ cur = Strip(self, depth)
        /\ ~is_ref(self) => depth = 0
        /\ \A k \in 0..depth : k < depth => Matching(Strip(self, k), target) = {}
        /\ pc = "done" => conv = Direct(cur, target, v)

\* a step of a running call of into_target returns, or makes the one
\* recursive call: same target, same expression, a receiver with one leading
\* Ref layer less
FallbackStep ==
    (op = "into_target" /\ pc = "run") =>
        \/ pc' = "done"
        \/ /\ pc' = "run"
           /\ depth' = depth + 1
           /\ is_ref(cur) /\ cur' = cur[2]
           /\ RefLayers(cur') + 1 = RefLayers(cur)
           /\ target' = target /\ v' = v /\ self' = self

\* C4: the Ref fallback does not loop.  Each recursive call removes one
\* leading Ref layer of the source and keeps target and expression, so there
\* are at most RefLayers(source) of them and none for a source that is no
\* Ref; a call is made only when no rule applied to the layers above; the
\* Result returned is the Result of the innermost call.  Every step either
\* returns or lowers the number of leading Ref layers left, so the call ends.
C4_FallbackTerminates == []FallbackInv /\ [][FallbackStep]_vars

C4_Witness ==
    /\ Converted
    /\ self = Ref(Ref(String))
    /\ target = Uniq(String)
    /\ depth = 2
    /\ conv = Ok("::std::boxed::Box::new(" \o v \o ")")


(***************************************************************************)
(* Properties of the path resolver and of cross-file naming.               *)
(***************************************************************************)
\* length of the longest common prefix of the sequences a and b
CommonPrefixLen(a, b) ==
    LET common == {k \in 0..Len(a) :
                      k <= Len(b) /\ \A i \in 1..k : a[i] = b[i]}
    IN  CHOOSE k \in common : \A j \in common : j <= k

Supers(n) == [i \in 1..n |-> "super"]

\* the relative path from module a to module b: up to their common
\* ancestor, then down
RelativePath(a, b) ==
    LET k == CommonPrefixLen(a, b)
    IN  RustPath(FALSE, Supers(Len(a) - k) \o SubSeq(b, k + 1, Len(b)))

Separators == {"/", "\\"}

\* c is what follows the last separator of f (all of f when it has none)
IsLastComponent(f, c) ==
    \E k \in 0..Len(f) :
        /\ c = SubSeq(f, k + 1, Len(f))
        /\ \A i \in 1..Len(c) : c[i] \notin Separators
        /\ k = 0 \/ f[k] \in Separators

\* f and g differ in their directory prefix only
SameLastComponent(f, g) ==
    \E k \in 0..Len(f) :
        LET c == SubSeq(f, k + 1, Len(f))
        IN  IsLastComponent(f, c) /\ IsLastComponent(g, c)

\* the conditions of the four naming rules
InWellKnownTable(e) ==
    e.package = "google.protobuf" /\ e.proto \in WellKnownNames

InDescriptorProto(e) ==
    e.package = "google.protobuf" /\ IsLastComponent(e.file, descriptor_proto)

\* C6: the four naming rules apply in the order same file, well-known
\* table, descriptor.proto, other file; the first whose condition holds
\* decides.  A message of the current file gets the relative path to it
\* even when it is in the well-known table or in descriptor.proto; a message
\* of another file that is in both gets the well-known symbol; only a
\* message that meets none of the three gets one `super` for each module of
\* the current position, one more `super`, and its path with the file.
C6_NamingPrecedence ==
    (op = "message_or_enum_to_rust_relative" /\ pc = "done") =>
        result = Ok(
            IF entity.file = current.file
            THEN IdentWithPath(RelativePath(current.relative_mod, entity.mods),
                               entity.ident)
            ELSE IF InWellKnownTable(entity)
            THEN IdentWithPath(RustPath(TRUE, <<"protobuf", "well_known_types">>),
                               entity.proto)
            ELSE IF InDescriptorProto(entity)
            THEN IdentWithPath(RustPath(TRUE, <<"protobuf", "descriptor">>
                                                  \o entity.mods),
                               entity.ident)
            ELSE IdentWithPath(
                     RustPath(FALSE, Supers(Len(current.relative_mod))
                                        \o <<"super", entity.file_mod>>
                                        \o entity.mods),
                     entity.ident))

\* a message of the current file that is in the well-known table and in
\* descriptor.proto, named by the relative path
C6_Witness ==
    /\ op = "message_or_enum_to_rust_relative" /\ pc = "done"
    /\ entity.file = current.file
    /\ InWellKnownTable(entity)
    /\ InDescriptorProto(entity)
    /\ current.relative_mod = <<"outer", "inner">>
    /\ result = Ok(IdentWithPath(RustPath(FALSE, <<"super", "super">>), "Any"))

\* C7: file_last_component(file) is what follows the last '/' or '\' of
\* file, whichever is later, and file itself when it has neither; it holds
\* no separator.  is_descriptor_proto is TRUE exactly when the package is
\* google.protobuf and that component is descriptor.proto, so files with the
\* same last component are classified alike.
C7_FileLastComponent ==
    /\ (op = "file_last_component" /\ pc = "done") =>
          IsLastComponent(file, result[2])
    /\ (op = "is_descriptor_proto" /\ pc = "done") =>
          /\ result[2] = (/\ package = "google.protobuf"
                          /\ IsLastComponent(file, descriptor_proto))
          /\ \A g \in Files :
                SameLastComponent(file, g)
                => is_descriptor_proto(package, g) = result[2]

C7_Witness ==
    /\ op = "is_descriptor_proto" /\ pc = "done"
    /\ package = "google.protobuf"
    /\ file = <<"/", "x", "\\">> \o descriptor_proto
    /\ result = Ok(TRUE)


(***************************************************************************)
(* Properties of default_value and clear.                                  *)
(***************************************************************************)
\* C8 as stated: default_value fails for every Ref(x), for Group and for
\* Oneof.
C8_AsStated ==
    (op = "default_value" /\ pc = "done"
        /\ (is_ref(self) \/ self = Group \/ Variant(self) = "Oneof"))
    => result = Panic

\* C8, amended: default_value fails for Group, for Oneof and for every
\* Ref(x) but three: Ref(Str) gives "", Ref(Slice(_)) gives &[] and
\* Ref(Message(name)) gives the default instance of the message.
C8_DefaultValueFails ==
    (op = "default_value" /\ pc = "done") =>
        /\ (self = Group \/ Variant(self) = "Oneof") => result = Panic
        /\ is_ref(self) =>
              result =
                 IF self[2] = Str THEN Ok("\"\"")
                 ELSE IF Variant(self[2]) = "Slice" THEN Ok("&[]")
                 ELSE IF Variant(self[2]) = "Message"
                 THEN Ok("<" \o self[2][2]
                         \o " as ::protobuf::Message>::default_instance()")
                 ELSE Panic

C8_Witness ==
    /\ op = "default_value" /\ pc = "done"
    /\ self = Ref(Uniq(Message("Ab")))
    /\ result = Panic

ClearedInPlace ==
    {"Vec", "HashMap", "Bytes", "String", "SingularField", "SingularPtrField",
     "RepeatedField"}

ClearedByDefault == {"Bool", "Float", "Int", "Enum", "EnumOrUnknown"}

\* C9 as stated: clear succeeds on Option, on the kinds cleared in place and
\* on the scalar kinds, and on nothing else.
C9_AsStated ==
    (op = "clear" /\ pc = "done") =>
        (IsOk(result) <=>
            Variant(self) \in {"Option"} \cup ClearedInPlace \cup ClearedByDefault)

\* C9, amended: clear succeeds on Option (assigns None), on Vec, HashMap,
\* Bytes, String, SingularField, SingularPtrField, RepeatedField (v.clear()),
\* on Chars (::protobuf::Clear::clear(&mut v)) and on Bool, Float, Int, Enum,
\* EnumOrUnknown ("v = " followed by default_value); on every other variant
\* it fails.  Where clear succeeds, default_value succeeds.
C9_Clear ==
    (op = "clear" /\ pc = "done") =>
        /\ result =
              IF Variant(self) = "Option"
              THEN Ok(v \o " = ::std::option::Option::None")
              ELSE IF Variant(self) \in ClearedInPlace THEN Ok(v \o ".clear()")
              ELSE IF Variant(self) = "Chars"
              THEN Ok("::protobuf::Clear::clear(&mut " \o v \o ")")
              ELSE IF Variant(self) \in ClearedByDefault
              THEN Ok(v \o " = " \o default_value(self)[2])
              ELSE Panic
        /\ IsOk(result) => IsOk(default_value(self))

C9_Witness ==
    /\ op = "clear" /\ pc = "done"
    /\ self = Chars
    /\ v = "v"
    /\ result = Ok("::protobuf::Clear::clear(&mut v)")

(***************************************************************************)
(* The enum round trip.                                                    *)
(***************************************************************************)
\* ProtobufEnumOrUnknown (the runtime library), as the conversion rules of
\* the specification describe it: new wraps a known variant;
\* enum_value_or_default gives the known variant back, and the default for
\* an unknown number.
ProtobufEnumOrUnknown_new(e) == [known |-> TRUE, value |-> e]

enum_value_or_default(w, default) == IF w.known THEN w.value ELSE default

Signed32 == {"TYPE_INT32", "TYPE_SINT32", "TYPE_SFIXED32"}

Signed64 == {"TYPE_INT64", "TYPE_SINT64", "TYPE_SFIXED64"}

Unsigned32 == {"TYPE_UINT32", "TYPE_FIXED32"}

Unsigned64 == {"TYPE_UINT64", "TYPE_FIXED64"}

NotPrimitive == {"TYPE_ENUM", "TYPE_MESSAGE", "TYPE_GROUP"}

\* C11: rust_name returns a type for each of the 15 primitive field types
\* (double and float the floats of 64 and 32 bits; int32, sint32, sfixed32
\* the signed and uint32, fixed32 the unsigned integer of 32 bits, likewise
\* for 64 bits; bool Bool, string String, bytes Vec of u8) and panics for
\* TYPE_ENUM, TYPE_MESSAGE and TYPE_GROUP.  default_value and clear succeed
\* on every type it returns.
C11_RustName ==
    (op = "rust_name" /\ pc = "done") =>
        /\ field_type = "TYPE_DOUBLE" => result = Ok(Float(64))
        /\ field_type = "TYPE_FLOAT" => result = Ok(Float(32))
        /\ field_type \in Signed32 => result = Ok(Int(TRUE, 32))
        /\ field_type \in Signed64 => result = Ok(Int(TRUE, 64))
        /\ field_type \in Unsigned32 => result = Ok(Int(FALSE, 32))
        /\ field_type \in Unsigned64 => result = Ok(Int(FALSE, 64))
        /\ field_type = "TYPE_BOOL" => result = Ok(Bool)
        /\ field_type = "TYPE_STRING" => result = Ok(String)
        /\ field_type = "TYPE_BYTES" => result = Ok(Vec(Int(FALSE, 8)))
        /\ field_type \in NotPrimitive => result = Panic
        /\ IsOk(result) <=> field_type \notin NotPrimitive
        /\ Cardinality(FieldTypes \ NotPrimitive) = 15
        /\ IsOk(result) =>
              /\ IsOk(default_value(result[2]))
              /\ IsOk(clear(result[2], v))

C11_Witness ==
    /\ op = "rust_name" /\ pc = "done"
    /\ field_type = "TYPE_BYTES"
    /\ result = Ok(Vec(Int(FALSE, 8)))
    /\ clear(result[2], v) = Ok(v \o ".clear()")


(***************************************************************************)
(* Exclusiveness of the direct conversion rules.                           *)
(***************************************************************************)
\* C12: of the direct rules of try_into_target (the Ref-of-Box check and
\* the arms of the match) at most one applies to any (source, target), in
\* the first call and in every recursive call; so the value returned is the
\* value of the one rule that applies, whatever the order of the rules.
\* Order matters between a direct rule and the Ref fallback only: a source
\* that a direct rule applies to is converted without recursion, and
\* Ref(Enum) or Ref(EnumOrUnknown) into i32 gets the value of its own rule,
\* which is not what the enum behind the Ref would get.
C12_RulesExclusive ==
    op = "into_target" =>
        /\ Cardinality(Matching(cur, target)) <= 1
        /\ (pc = "done" /\ IsOk(conv)) =>
              \A i \in Matching(cur, target) :
                  conv = Ok(Rules(cur, target, v)[i][2])
        /\ (pc = "done" /\ Matching(self, target) # {}) => depth = 0
        /\ (/\ pc = "done"
            /\ is_ref(self)
            /\ is_enum(self[2]) \/ is_enum_or_unknown(self[2])
            /\ target = Int(TRUE, 32)) =>
              /\ depth = 0
              /\ IsOk(conv)
              /\ IsOk(Direct(self[2], target, v))
              /\ conv # Direct(self[2], target, v)

C12_Witness ==
    /\ Converted
    /\ self = Ref(Enum("Ab", "X"))
    /\ target = Int(TRUE, 32)
    /\ v = "v"
    /\ depth = 0
    /\ conv = Ok("::protobuf::ProtobufEnum::value(v)")
    /\ Direct(self[2], target, v) = Ok("::protobuf::ProtobufEnum::value(&v)")

====
